---- MODULE Spec2Model ----
(***************************************************************************)
(* Model of the regional aggregation code of reegis_tools/coastdat.py:     *)
(*   spatial_average_weather, aggregate_by_region_coastdat_feedin,         *)
(*   aggregate_by_region_hydro and                                         *)
(*   aggregate_by_region_geothermal,                                       *)
(* and of the operations on files: tools.download_file, get_coastdat_data, *)
(* inhabitants.get_ew_shp_file, normalised_feedin_for_each_data_set,       *)
(* get_average_wind_speed and federal_state_average_weather, seen by the   *)
(* files they read, write and remove and the requests they make.           *)
(*                                                                         *)
(* Numbers.  The code computes with floats; the model computes with exact  *)
(* non-negative rationals [n, d] in lowest terms, plus the two special     *)
(* float values the code can produce: NaN (0/0) and inf (1/0).             *)
(*                                                                         *)
(* Series.  An hourly pandas Series of one year is a sequence of values    *)
(* whose index is the hours 1..len of that year.  The model stores it      *)
(* run-length encoded: a sequence of runs [c |-> count, v |-> value] with  *)
(* count > 0 and no two neighbouring runs of the same value, so that two   *)
(* series are equal exactly when their encodings are equal.                *)
(***************************************************************************)
EXTENDS Integers, Sequences, FiniteSets, TLC

----------------------------------------------------------------------------
(* Float values *)

NaN == [n |-> 0, d |-> 0]
Inf == [n |-> 1, d |-> 0]

IsNaN(x) == x.d = 0 /\ x.n = 0
IsInf(x) == x.d = 0 /\ x.n = 1
IsFinite(x) == x.d > 0

RECURSIVE GCD(_, _)
GCD(a, b) == IF b = 0 THEN a ELSE GCD(b, a % b)

\* the rational n/d, d > 0, n >= 0, in lowest terms
Frac(n, d) == LET g == GCD(n, d) IN [n |-> n \div g, d |-> d \div g]

Num(i) == [n |-> i, d |-> 1]

\* x + y of two floats
FAdd(x, y) ==
    IF IsNaN(x) \/ IsNaN(y) THEN NaN
    ELSE IF IsInf(x) \/ IsInf(y) THEN Inf
    ELSE Frac(x.n * y.d + y.n * x.d, x.d * y.d)

\* x * y of two floats
FMul(x, y) ==
    IF IsNaN(x) \/ IsNaN(y) THEN NaN
    ELSE IF IsInf(x) \/ IsInf(y)
         THEN (IF x.n = 0 \/ y.n = 0 THEN NaN ELSE Inf)
    ELSE Frac(x.n * y.n, x.d * y.d)

\* x / y of two numpy floats: a zero divisor gives inf or NaN, no exception
FDiv(x, y) ==
    IF IsNaN(x) \/ IsNaN(y) THEN NaN
    ELSE IF IsInf(y) THEN (IF IsInf(x) THEN NaN ELSE Num(0))
    ELSE IF IsInf(x) THEN Inf
    ELSE IF y.n = 0 THEN (IF x.n = 0 THEN NaN ELSE Inf)
    ELSE Frac(x.n * y.d, x.d * y.n)

----------------------------------------------------------------------------
(* Run-length encoded series *)

RECURSIVE SLen(_)
SLen(s) == IF s = <<>> THEN 0 ELSE Head(s).c + SLen(Tail(s))

\* the value at hour h, 1 <= h <= SLen(s)
RECURSIVE At(_, _)
At(s, h) == IF h <= Head(s).c THEN Head(s).v ELSE At(Tail(s), h - Head(s).c)

\* merge neighbouring runs of the same value
RECURSIVE Canon(_)
Canon(s) ==
    IF Len(s) < 2 THEN s
    ELSE IF s[1].v = s[2].v
         THEN Canon(<<[c |-> s[1].c + s[2].c, v |-> s[1].v]>> \o SubSeq(s, 3, Len(s)))
         ELSE <<s[1]>> \o Canon(Tail(s))

\* a series of k times the value v
Const(k, v) == IF k <= 0 THEN <<>> ELSE <<[c |-> k, v |-> v]>>

\* the first k values of s (all of s when it has no more than k)
RECURSIVE FirstN(_, _)
FirstN(s, k) ==
    IF k <= 0 \/ s = <<>> THEN <<>>
    ELSE IF Head(s).c >= k THEN <<[c |-> k, v |-> Head(s).v]>>
    ELSE <<Head(s)>> \o FirstN(Tail(s), k - Head(s).c)

\* s followed by t
Concat(s, t) == Canon(s \o t)

\* s aligned to the index 1..L: values beyond L are dropped, missing hours
\* become NaN
Reindex(s, L) ==
    IF SLen(s) >= L THEN FirstN(s, L)
    ELSE Concat(s, Const(L - SLen(s), NaN))

\* x + y where a NaN operand is skipped (skipna=True)
AddSkipNa(x, y) == IF IsNaN(x) THEN y ELSE IF IsNaN(y) THEN x ELSE FAdd(x, y)

\* x, or y where x is NaN
FillNa(x, y) == IF IsNaN(x) THEN y ELSE x

\* the binary operation named op
Apply(op, x, y) ==
    CASE op = "add" -> FAdd(x, y)
      [] op = "mul" -> FMul(x, y)
      [] op = "div" -> FDiv(x, y)
      [] op = "addskipna" -> AddSkipNa(x, y)
      [] op = "fillna" -> FillNa(x, y)

\* op applied to every value of s and the scalar y
RECURSIVE MapRuns(_, _, _)
MapRuns(op, s, y) ==
    IF s = <<>> THEN <<>>
    ELSE <<[c |-> Head(s).c, v |-> Apply(op, Head(s).v, y)]>> \o MapRuns(op, Tail(s), y)

SMap(op, s, y) == Canon(MapRuns(op, s, y))

\* op applied hour by hour to two series of the same length
RECURSIVE ZipRuns(_, _, _)
ZipRuns(op, s, t) ==
    IF s = <<>> \/ t = <<>> THEN <<>>
    ELSE LET a == Head(s)
             b == Head(t)
             k == IF a.c < b.c THEN a.c ELSE b.c
             s1 == IF a.c = k THEN Tail(s) ELSE <<[c |-> a.c - k, v |-> a.v]>> \o Tail(s)
             t1 == IF b.c = k THEN Tail(t) ELSE <<[c |-> b.c - k, v |-> b.v]>> \o Tail(t)
         IN  <<[c |-> k, v |-> Apply(op, a.v, b.v)]>> \o ZipRuns(op, s1, t1)

SZip(op, s, t) == Canon(ZipRuns(op, s, t))

----------------------------------------------------------------------------
(* pandas.DataFrame with the hourly index 1..len and series as columns *)

\* pd.DataFrame(): no index, no columns
EmptyFrame == [len |-> 0, col |-> <<>>]

\* pd.DataFrame(index=idx) for an index of L hours
IndexFrame(L) == [len |-> L, col |-> <<>>]

\* df[k] = s.  A frame without index takes the index of s; otherwise s is
\* aligned to the index of the frame.
SetCol(df, k, s) ==
    IF df.len = 0
    THEN [len |-> SLen(s),
          col |-> (k :> s) @@ [j \in DOMAIN df.col |-> Reindex(df.col[j], SLen(s))]]
    ELSE [len |-> df.len, col |-> (k :> Reindex(s, df.len)) @@ df.col]

\* the sum of the columns ks of df, hour by hour, NaN skipped; NaN where no
\* column has a value
RECURSIVE SumCols(_, _)
SumCols(df, ks) ==
    IF ks = {} THEN Const(df.len, NaN)
    ELSE LET k == CHOOSE j \in ks : TRUE
         IN  SZip("addskipna", df.col[k], SumCols(df, ks \ {k}))

\* df.sum(axis=1): the row sums with NaN skipped.  A row without any valid
\* entry sums to nosum: NaN before pandas 0.22, 0 since.
RowSum(df, nosum) == SMap("fillna", SumCols(df, DOMAIN df.col), nosum)

----------------------------------------------------------------------------
(* Bounds and inputs *)

MaxPoints == 3      \* grid points of the coastdat grid
MaxRegions == 2     \* regions of the target geometry
MaxVal == 0         \* largest base value of a stored series

\* the grid point whose series gives the result index of the feed-in
\* aggregation
RefId == 1129087

GridIds == RefId .. (RefId + MaxPoints - 1)
Regions == 1 .. MaxRegions
NoRegion == 0

Years == {2015, 2016}

\* calendar.isleap
IsLeap(y) == y % 4 = 0 /\ (y % 100 # 0 \/ y % 400 = 0)

\* the expected number of hourly points of a year
HMax(y) == IF IsLeap(y) THEN 8784 ELSE 8760

\* The stored series of the model: L hourly values that start at v and step
\* up by one at the hours 8760, 8761, 8784 and 8785, so that every cut at one
\* of the year boundaries, from either end, changes the series.
Ramp(L, v) ==
    FirstN(<<[c |-> 8759, v |-> Num(v)], [c |-> 1, v |-> Num(v + 1)],
             [c |-> 23, v |-> Num(v + 2)], [c |-> 1, v |-> Num(v + 3)],
             [c |-> 2, v |-> Num(v + 4)]>>, L)

\* lengths of stored series of year y: one short, exact, one long
Lengths(y) == {HMax(y) - 1, HMax(y), HMax(y) + 1}

\* The stores of year y: grid point number j (from 0) holds the ramp that
\* starts at v0 + j; every series has the expected length but the one of
\* grid point odd, which has L values.
StoreOf(y, v0, odd, L) ==
    [p \in GridIds |-> Ramp(IF p = odd THEN L ELSE HMax(y), v0 + (p - RefId))]

Stores(y) == {StoreOf(y, v0, odd, L) :
                  v0 \in 0 .. MaxVal, odd \in GridIds, L \in Lengths(y)}

\* 'A' + str(cid): the key of grid point cid in a weather store
Key(cid) == <<"A", cid>>

----------------------------------------------------------------------------
(* State *)

VARIABLES
    pc,          \* position of the running operation
    err,         \* the exception that ended it, or "none"
    year,        \* the year argument
    nosum,       \* sum of a row without valid entry (pandas build)
    i,           \* loop position in the list of regions
    \* spatial_average_weather
    geo_index,   \* geo.gdf.index: the regions in table order
    grid,        \* index of the coastdat polygon table, in table order
    within,      \* region that contains the centroid of a grid polygon
    rep_hits,    \* grid polygons found to intersect the representative
                 \* point of a region without match
    coastdat_gdf,\* the joined table: grid id -> region
    fix,         \* fallback grid point of the regions without match
    weather,     \* the weather store of the year: key -> series of the parameter
    fix_read,    \* regions whose fallback entry was read
    avg_value,   \* the result frame of spatial_average_weather
    \* aggregate_by_region_*
    regions,     \* the list of regions to aggregate
    pp,          \* capacity of the category: <<region, grid id>> -> capacity
    pwr,         \* the feed-in stores: set name -> key -> column -> series
    feed_in,     \* the result frame
    energy,      \* annual hydro energy of the year (bmwi)
    flh_cfg,     \* configured geothermal full load hours
    \* files and downloads
    fs,          \* the file system: file name -> content
    requests,    \* the HTTP requests of the last call, with their responses
    ret,         \* return value of the last call of download_file
    call,        \* the last operation called, with its arguments
    opened,      \* the files the last call opened for writing
    url_cfg      \* the entry coastdat<year> of the section coastdat

common == <<pc, err, year, nosum, i>>
wvars == <<geo_index, grid, within, rep_hits, coastdat_gdf, fix, weather,
           fix_read, avg_value>>
fvars == <<regions, pp, pwr, feed_in, energy, flh_cfg>>
dvars == <<fs, requests, ret, call, opened, url_cfg>>
vars == <<common, wvars, fvars, dvars>>

----------------------------------------------------------------------------
(* Files and requests: tools.download_file, get_coastdat_data and the      *)
(* operations that skip existing result files                             *)

\* the status codes a server answers with
Statuses == {200, 404, 500}

\* the content of a file: what it is and where its data came from
Content(kind, src) == [kind |-> kind, src |-> src]

\* no file of that name
Absent == Content("absent", "")

\* os.path.isfile(f)
IsFile(files, f) == files[f] # Absent

\* the urls of the configuration file, and a missing option
CoastdatUrl == "coastdat"
EbeneUrl == "geodata/ebene"
EbenenUrl == "geodata/ebenen"
NoUrl == ""

\* the file names: directory and name
WeatherFile == <<"coastdat", "weather">>
KeyFile == <<"coastdat", "keys">>
AvgWindFile == <<"coastdat", "avg_wind">>
StateFile == <<"coastdat", "avg_state">>
AverageFile == <<"coastdat", "average">>
ZipFile == <<"inhabitants", "zip">>
ShpFile == <<"inhabitants", "shp">>
FeedinFile == <<"feedin", "solar">>
HydroFile == <<"feedin", "hydro">>
GeothermalFile == <<"feedin", "geothermal">>
pv_sets == {"set1", "set2"}
wind_sets == {"wind1"}
SolarFiles == {<<"solar", k>> : k \in pv_sets}
WindFiles == {<<"wind", k>> : k \in wind_sets}
Files == {WeatherFile, KeyFile, AvgWindFile, StateFile, AverageFile, ZipFile,
          ShpFile, FeedinFile, HydroFile, GeothermalFile}
             \cup SolarFiles \cup WindFiles

\* os.path.isdir(dir): a directory is there when it holds a file
IsDir(files, dir) == \E f \in Files : f[1] = dir /\ IsFile(files, f)

\* what a file of the package holds after a complete run
Stored(f) ==
    IF f = WeatherFile THEN Content("archive", CoastdatUrl)
    ELSE IF f = KeyFile THEN Content("keys", CoastdatUrl)
    ELSE IF f \in SolarFiles \cup WindFiles THEN Content("feedin", CoastdatUrl)
    ELSE Content("csv", CoastdatUrl)

\* the file system with the files P
Disk(P) == [f \in Files |-> IF f \in P THEN Stored(f) ELSE Absent]

\* the file system in which an error page was saved as weather file
DiskWithPage == [Disk({}) EXCEPT ![WeatherFile] = Content("page", CoastdatUrl)]

\* what a server can answer to a request of url: the archive with status
\* 200, or an error page with another status
Responses(url) ==
    {[url |-> url, status |-> st,
      body |-> IF st = 200 THEN Content("archive", url)
                           ELSE Content("page", url)] : st \in Statuses}

\* the answers to draw for a request that is made only if needed
Answers(url, needed) ==
    IF needed THEN Responses(url)
    ELSE {[url |-> url, status |-> 0, body |-> Absent]}

\* the direct downloads of the model: the weather archive (coastdat.py:56)
\* and the archive of the inhabitants' geometries under its two urls
\* (inhabitants.py:47, 50)
Downloads ==
    {<<WeatherFile, CoastdatUrl>>, <<ZipFile, EbeneUrl>>, <<ZipFile, EbenenUrl>>}

\* open(filename, 'wb') followed by a write of body
WriteFile(files, filename, body) == [files EXCEPT ![filename] = body]

\* os.remove(filename)
RemoveFile(files, filename) == [files EXCEPT ![filename] = Absent]

\* the condition of the download in download_file
NeedsDownloadAlways(exists, overwrite) == TRUE

NeedsDownload(exists, overwrite) == ~exists \/ overwrite

\* tools.download_file(filename, url, overwrite) in the file system files,
\* after the requests reqs of the running call, when the server answers
\* resp to a request: the file system, the requests, the return value and
\* the files opened for writing
download_file(files, reqs, filename, url, overwrite, resp) ==
    IF NeedsDownload(IsFile(files, filename), overwrite)
    THEN [fs |-> WriteFile(files, filename, resp.body),
          requests |-> Append(reqs, resp),
          r |-> resp.status,
          opened |-> {filename}]
    ELSE [fs |-> files, requests |-> reqs, r |-> 1, opened |-> {}]

\* get_coastdat_data(year, filename) when the configuration holds url for
\* the year (NoUrl: cfg.get raises NoOptionError) and the server answers
\* resp1 to the request of download_file and resp2 to the request of
\* get_coastdat_data itself; r is the last return value of download_file
get_coastdat_data(files, reqs, r, url, filename, resp1, resp2) ==
    IF url = NoUrl
    THEN [fs |-> files, requests |-> reqs, r |-> r, opened |-> {}]
    ELSE LET d == download_file(files, reqs, filename, url, FALSE, resp1)
         IN  [fs |-> IF resp2.status = 200
                     THEN WriteFile(d.fs, filename, resp2.body)
                     ELSE d.fs,
              requests |-> Append(d.requests, resp2),
              r |-> d.r,
              opened |-> d.opened \cup (IF resp2.status = 200
                                        THEN {filename} ELSE {})]

\* the record of a call
Call(op, file, url, overwrite, wind, solar) ==
    [op |-> op, file |-> file, url |-> url, overwrite |-> overwrite,
     wind |-> wind, solar |-> solar]

\* no call yet
NoCall == Call("none", WeatherFile, NoUrl, FALSE, FALSE, FALSE)

\* the state of the calls before the first operation
NoCallYet ==
    /\ requests = <<>>
    /\ ret = 0
    /\ call = NoCall
    /\ opened = {}

\* the outcome of an operation: files, requests, last return value of
\* download_file, files opened for writing, exception
Outcome(files, reqs, r, op, e) ==
    [fs |-> files, requests |-> reqs, r |-> r, opened |-> op, err |-> e]

\* pd.HDFStore(f, mode='r') succeeds on a coastdat archive only
IsStore(files, f) == files[f] = Content("archive", CoastdatUrl)

\* the exception of pd.HDFStore(f, mode='r')
OpenError(files, f) ==
    IF ~IsFile(files, f) THEN "IOError"
    ELSE IF ~IsStore(files, f) THEN "HDF5ExtError"
    ELSE "none"

\* if not os.path.isfile(weatherfile): get_coastdat_data(year, weatherfile)
FetchWeather(files, reqs, r, url, resp1, resp2) ==
    IF IsFile(files, WeatherFile)
    THEN [fs |-> files, requests |-> reqs, r |-> r, opened |-> {}]
    ELSE get_coastdat_data(files, reqs, r, url, WeatherFile, resp1, resp2)

\* the answers to draw for the requests of FetchWeather
Fetched(files, url) == Answers(url, url # NoUrl /\ ~IsFile(files, WeatherFile))

\* the condition of a computation whose result file may exist
NeedsRunAlways(exists, overwrite) == TRUE

NeedsRun(exists, overwrite) == ~exists \/ overwrite

\* normalised_feedin_for_each_data_set(year, wind, solar, overwrite)
normalised_feedin_for_each_data_set(files, reqs, r, url, wind, solar, overwrite, resp1, resp2) ==
    LET g == FetchWeather(files, reqs, r, url, resp1, resp2)
        e == OpenError(g.fs, WeatherFile)
        src == g.fs[WeatherFile].src
        keyed == IF IsFile(g.fs, KeyFile) THEN g.fs
                 ELSE WriteFile(g.fs, KeyFile, Content("keys", src))
        hdf == {f \in (IF solar THEN SolarFiles ELSE {})
                         \cup (IF wind THEN WindFiles ELSE {}) :
                   NeedsRun(IsFile(keyed, f), overwrite)}
        out == [f \in Files |-> IF f \in hdf THEN Content("feedin", src)
                                ELSE keyed[f]]
    IN  IF e # "none" THEN Outcome(g.fs, g.requests, g.r, g.opened, e)
        ELSE Outcome(out, g.requests, g.r,
                     g.opened \cup hdf
                        \cup (IF IsFile(g.fs, KeyFile) THEN {} ELSE {KeyFile}),
                     "none")

\* get_average_wind_speed(..., out_file, overwrite): the weather files found
\* in weather_path are those of the years with a file
get_average_wind_speed(files, reqs, r, overwrite) ==
    IF NeedsRun(IsFile(files, AvgWindFile), overwrite)
    THEN LET years == IF IsFile(files, WeatherFile) THEN <<1>> ELSE <<>>
         IN  IF years = <<>>
             THEN Outcome(files, reqs, r, {}, "IndexError")
             ELSE IF OpenError(files, WeatherFile) # "none"
             THEN Outcome(files, reqs, r, {}, OpenError(files, WeatherFile))
             ELSE Outcome(WriteFile(files, AvgWindFile,
                                    Content("csv", files[WeatherFile].src)),
                          reqs, r, {AvgWindFile}, "none")
    ELSE Outcome(files, reqs, r, {}, "none")

\* zipfile.ZipFile(f, 'r') succeeds on an archive of the geometries only
IsZip(files, f) ==
    files[f] \in {Content("archive", EbeneUrl), Content("archive", EbenenUrl)}

\* the years get_ew_shp_file is called for: one before 2011, one after
EwYears == {2010, 2016}

\* inhabitants.get_ew_shp_file(y) when the server answers resp1 to the
\* request of the first url and resp2 to the request of the second: the
\* archive is downloaded unless it is there, downloaded again from the
\* second url after a 404, extracted to the shape file and removed
get_ew_shp_file(files, reqs, r, y, resp1, resp2) ==
    IF y < 2011 THEN Outcome(files, reqs, r, {}, "AttributeError")
    ELSE IF IsFile(files, ShpFile) THEN Outcome(files, reqs, r, {}, "none")
    ELSE LET d1 == download_file(files, reqs, ZipFile, EbeneUrl, FALSE, resp1)
             d2 == IF d1.r = 404
                   THEN download_file(d1.fs, d1.requests, ZipFile, EbenenUrl,
                                      TRUE, resp2)
                   ELSE d1
             op == d1.opened \cup d2.opened
         IN  IF ~IsZip(d2.fs, ZipFile)
             THEN Outcome(d2.fs, d2.requests, d2.r, op, "BadZipFile")
             ELSE Outcome(RemoveFile(WriteFile(d2.fs, ShpFile,
                                               Content("shp", d2.fs[ZipFile].src)),
                                     ZipFile),
                          d2.requests, d2.r, op \cup {ShpFile}, "none")

----------------------------------------------------------------------------
(* spatial_average_weather *)

\* geometries.spatial_join_with_buffer(coastdat_geo, geo, limit=0): every
\* centroid gets the region that contains it
spatial_join_with_buffer(w) == w

\* the regions without any joined grid point
Unmatched(gdf, idx) ==
    {idx[j] : j \in DOMAIN idx} \ {gdf[p] : p \in DOMAIN gdf}

\* changed: the intersecting polygons in reverse table order
IntersectingReversed(tbl, hits) ==
    LET sel == SelectSeq(tbl, LAMBDA p : p \in hits)
    IN  [j \in 1 .. Len(sel) |-> sel[Len(sel) + 1 - j]]

\* coastdat_poly.gdf.loc[coastdat_poly.gdf.intersects(reg_point)].index:
\* the intersecting polygons in table order
Intersecting(tbl, hits) == SelectSeq(tbl, LAMBDA p : p \in hits)

\* The polygons a point can meet: none (it lies outside the grid), one, or
\* two neighbours of the table (it lies on their common edge).
Meets(tbl) ==
    {{}} \cup {{tbl[j]} : j \in DOMAIN tbl}
         \cup {{tbl[j], tbl[j + 1]} : j \in 1 .. Len(tbl) - 1}

\* lines 375-401: join, then the fallback fix, then the weather file is
\* fetched if missing and opened.  hits is the outcome of
\* intersects(reg_point) for the regions without match; index[0] of an empty
\* selection raises IndexError.
JoinAndFix ==
    /\ pc = "join"
    /\ LET gdf == spatial_join_with_buffer(within)
           bad == Unmatched(gdf, geo_index)
       IN  /\ coastdat_gdf' = gdf
           /\ \E hits \in [bad -> Meets(grid)] :
                /\ rep_hits' = hits
                /\ IF \E r \in bad : Intersecting(grid, hits[r]) = <<>>
                   THEN /\ pc' = "error"
                        /\ err' = "IndexError"
                        /\ fix' = fix
                        /\ UNCHANGED <<fs, requests, ret, opened>>
                   ELSE /\ fix' = [r \in bad |-> Intersecting(grid, hits[r])[1]]
                        /\ \E resp1 \in Fetched(fs, url_cfg),
                              resp2 \in Fetched(fs, url_cfg) :
                             LET g == FetchWeather(fs, <<>>, ret, url_cfg,
                                                   resp1, resp2)
                                 e == OpenError(g.fs, WeatherFile)
                             IN  /\ fs' = g.fs
                                 /\ requests' = g.requests
                                 /\ ret' = g.r
                                 /\ opened' = g.opened
                                 /\ err' = e
                                 /\ pc' = IF e = "none" THEN "average"
                                          ELSE "error"
    /\ call' = Call("spatial_average_weather", AverageFile, url_cfg, FALSE,
                    FALSE, FALSE)
    /\ UNCHANGED <<year, nosum, i, geo_index, grid, within, weather,
                   fix_read, avg_value, fvars, url_cfg>>

\* coastdat_geo.gdf[coastdat_geo.gdf[col_name] == region].index, in table
\* order
CdIds(gdf, tbl, region) == SelectSeq(tbl, LAMBDA p : gdf[p] = region)

\* lines 408-419: the frame of the series of the grid points cd_ids
RECURSIVE TmpFrame(_, _)
TmpFrame(store, cd_ids) ==
    IF cd_ids = <<>> THEN EmptyFrame
    ELSE LET n == Len(cd_ids)
         IN  SetCol(TmpFrame(store, SubSeq(cd_ids, 1, n - 1)), cd_ids[n],
                    store[Key(cd_ids[n])])

\* changed: the sum of the series is not divided by their number
RegionColumnSum(store, gdf, tbl, fx, region, ns) ==
    LET cd_ids == CdIds(gdf, tbl, region)
    IN  IF Len(cd_ids) < 1
        THEN store[Key(fx[region])]
        ELSE RowSum(TmpFrame(store, cd_ids), ns)

\* changed: a region without grid point gets the mean of no series
RegionColumnNoFallback(store, gdf, tbl, fx, region, ns) ==
    LET cd_ids == CdIds(gdf, tbl, region)
    IN  SMap("div", RowSum(TmpFrame(store, cd_ids), ns), Num(Len(cd_ids)))

\* lines 406-424: the column of one region
RegionColumn(store, gdf, tbl, fx, region, ns) ==
    LET cd_ids == CdIds(gdf, tbl, region)
        number_of_sets == Len(cd_ids)
    IN  IF number_of_sets < 1
        THEN store[Key(fx[region])]
        ELSE SMap("div", RowSum(TmpFrame(store, cd_ids), ns), Num(number_of_sets))

\* one pass of the loop over geo.gdf.index (lines 405-424)
AverageRegion ==
    /\ pc = "average"
    /\ i <= Len(geo_index)
    /\ LET region == geo_index[i]
       IN  /\ avg_value' = SetCol(avg_value, region,
                 RegionColumn(weather, coastdat_gdf, grid, fix, region, nosum))
           /\ fix_read' = IF Len(CdIds(coastdat_gdf, grid, region)) < 1
                          THEN fix_read \cup {region} ELSE fix_read
    /\ i' = i + 1
    /\ UNCHANGED <<pc, err, year, nosum, geo_index, grid, within, rep_hits,
                   coastdat_gdf, fix, weather, fvars, dvars>>

\* lines 425-438: the loop is over, the frame is written
WriteAverage ==
    /\ pc = "average"
    /\ i > Len(geo_index)
    /\ pc' = "done"
    /\ fs' = WriteFile(fs, AverageFile, Content("csv", fs[WeatherFile].src))
    /\ opened' = opened \cup {AverageFile}
    /\ UNCHANGED <<err, year, nosum, i, wvars, fvars, requests, ret, call,
                   url_cfg>>

Ascending == [j \in 1 .. MaxPoints |-> RefId + j - 1]
Descending == [j \in 1 .. MaxPoints |-> RefId + MaxPoints - j]

\* two assignments of grid points to regions: every region has a point, or
\* all points lie in the first region
Spread == [p \in GridIds |-> 1 + ((p - RefId) % MaxRegions)]
Lumped == [p \in GridIds |-> 1]

\* The weather file of the year is there, with any of the stores; or it is
\* missing or an error page saved by an earlier download, and the archive of
\* the server holds the store of full length.
InitWeather ==
    /\ pc = "join"
    /\ err = "none"
    /\ year \in Years
    /\ nosum \in {NaN, Num(0)}
    /\ geo_index = [j \in 1 .. MaxRegions |-> j]
    /\ \/ /\ fs = Disk({WeatherFile})
          /\ url_cfg = CoastdatUrl
          /\ grid \in {Ascending, Descending}
          /\ within \in [GridIds -> Regions \cup {NoRegion}]
          /\ \E st \in Stores(year) :
                weather = [k \in {Key(p) : p \in GridIds} |-> st[k[2]]]
       \/ /\ fs \in {Disk({}), DiskWithPage}
          /\ url_cfg \in {NoUrl, CoastdatUrl}
          /\ grid = Ascending
          /\ within \in {Spread, Lumped}
          /\ weather = [k \in {Key(p) : p \in GridIds} |->
                           StoreOf(year, 0, RefId, HMax(year))[k[2]]]
    /\ rep_hits = <<>>
    /\ coastdat_gdf = <<>>
    /\ fix = <<>>
    /\ i = 1
    /\ fix_read = {}
    /\ avg_value = EmptyFrame
    /\ regions = <<>>
    /\ pp = <<>>
    /\ pwr = <<>>
    /\ feed_in = EmptyFrame
    /\ energy = 0
    /\ flh_cfg = 0
    /\ NoCallYet

NextWeather == JoinAndFix \/ AverageRegion \/ WriteAverage

SpecWeather == InitWeather /\ [][NextWeather]_vars

----------------------------------------------------------------------------
(* Claims about spatial_average_weather *)

\* the grid points whose centroid lies in region r
Natural(r) == {p \in GridIds : within[p] = r}

\* position of grid polygon p in the polygon table
Pos(p) == CHOOSE j \in DOMAIN grid : grid[j] = p

Joined == pc \in {"average", "done"}

\* C1: after the join and the fallback fix every region has a non-empty
\* contributing set of grid points: a region with a naturally contained grid
\* point has no fallback entry, a region without one has exactly one fallback
\* grid point, the first polygon of the polygon table that intersects its
\* representative point.
C1_FallbackGuarantee ==
    Joined =>
        \A j \in DOMAIN geo_index :
            LET r == geo_index[j]
            IN  /\ Natural(r) # {} => r \notin DOMAIN fix
                /\ Natural(r) = {} =>
                       /\ r \in DOMAIN fix
                       /\ fix[r] \in rep_hits[r]
                       /\ \A q \in rep_hits[r] : Pos(fix[r]) <= Pos(q)
                /\ Natural(r) \cup {fix[q] : q \in DOMAIN fix \cap {r}} # {}

\* a region without match whose representative point meets two polygons got
\* the first of the table, which is not the one with the smaller id, while
\* another region has natural grid points
C1_Witness ==
    /\ pc = "done"
    /\ \E r \in Regions :
           /\ Natural(r) = {}
           /\ Cardinality(rep_hits[r]) = 2
           /\ \E q \in rep_hits[r] : q < fix[r]
    /\ \E r \in Regions : Natural(r) # {}

\* the smallest of a non-empty set of numbers
Least(S) == CHOOSE x \in S : \A y \in S : x <= y

\* the hour-by-hour sum of the first m values of the series of the points P
RECURSIVE PlainSum(_, _)
PlainSum(P, m) ==
    IF P = {} THEN Const(m, Num(0))
    ELSE LET p == CHOOSE q \in P : TRUE
         IN  SZip("add", FirstN(weather[Key(p)], m), PlainSum(P \ {p}, m))

\* the hours for which the result has a row and every point of P a value
Common(P) == Least({avg_value.len} \cup {SLen(weather[Key(p)]) : p \in P})

\* C3: the column of a region with N >= 1 assigned grid points is, at every
\* hour, the arithmetic mean of the N series; with N = 1 it is the series
\* of that point itself.
C3_ArithmeticMean ==
    pc = "done" =>
        \A r \in Regions :
            LET P == Natural(r)
                m == Common(P)
            IN  P # {} =>
                  /\ SLen(avg_value.col[r]) = avg_value.len
                  /\ FirstN(avg_value.col[r], m)
                       = SMap("div", PlainSum(P, m), Num(Cardinality(P)))
                  /\ \A p \in P : P = {p} =>
                         FirstN(avg_value.col[r], m) = FirstN(weather[Key(p)], m)

\* a region averaged two different series and another region has exactly
\* one grid point
C3_Witness ==
    /\ pc = "done"
    /\ \E r \in Regions :
           /\ Cardinality(Natural(r)) = 2
           /\ Common(Natural(r)) >= 8760
           /\ \E h \in {1, 8760} : At(avg_value.col[r], h).d = 2
    /\ \E r \in Regions, p \in GridIds :
           /\ Natural(r) = {p}
           /\ avg_value.col[r] = weather[Key(p)]

\* C7: the column of a region without assigned grid point is the raw series
\* of its fallback grid point, read under the key 'A' + id, and only such
\* regions read the fallback table.
C7_FallbackSeries ==
    pc = "done" =>
        /\ \A r \in Regions :
              Natural(r) = {} =>
                  LET raw == weather[Key(fix[r])]
                      m == Common({fix[r]})
                  IN  /\ SLen(avg_value.col[r]) = avg_value.len
                      /\ avg_value.len > 0
                      /\ FirstN(avg_value.col[r], m) = FirstN(raw, m)
        /\ fix_read = {r \in Regions : Natural(r) = {}}

\* a region without match got the unchanged series of its fallback point,
\* which is not all zero, next to a region with natural grid points
C7_Witness ==
    /\ pc = "done"
    /\ \E r \in Regions :
           /\ Natural(r) = {}
           /\ avg_value.col[r] = weather[Key(fix[r])]
           /\ At(avg_value.col[r], 1).n > 0
    /\ \E r \in Regions : Natural(r) # {} /\ r \notin fix_read

----------------------------------------------------------------------------
(* aggregate_by_region_coastdat_feedin *)

MaxCap == 2         \* largest base capacity of a grid point

\* the number of values of a per-point series that enter the aggregation
FeedinHours == 8760

\* set_names: the sets found in the coastdat path
set_names == <<"set1", "set2">>

\* columns[name]: the column names of a set, split at '_'.  Two names share
\* their last three tokens, one has three tokens only.
columns ==
    [name \in {"set1", "set2"} |->
        << <<"E", "a", "b", "c">>, <<"V", "a", "b", "c">>, <<"x", "y", "z">> >>]

\* the whole column name as label
SubsetLabelWhole(col) == col

\* '_'.join(col.split('_')[-3:])
SubsetLabel(col) ==
    SubSeq(col, IF Len(col) > 3 THEN Len(col) - 2 ELSE 1, Len(col))

\* position of x in the sequence sq
IndexOf(sq, x) == CHOOSE j \in DOMAIN sq : sq[j] = x

\* The feed-in stores built on a store st of grid point series: the series
\* of column number c of set number k is the one of st raised by c + 3 * k.

PwrOf(st) ==
    [name \in {"set1", "set2"} |->
        [key \in {Key(p) : p \in GridIds} |->
            [col \in {columns[name][c] : c \in DOMAIN columns[name]} |->
                SMap("add", st[key[2]],
                     Num(IndexOf(columns[name], col) + 3 * IndexOf(set_names, name)))]]]

\* The capacity tables: grid point p is registered in region a[p] (or not
\* at all) with capacity c when flat, c + its number otherwise.
PpOf(a, c, flat) ==
    [e \in {<<a[p], p>> : p \in {q \in GridIds : a[q] # NoRegion}} |->
        IF flat THEN c ELSE c + (e[2] - RefId)]

\* pp.loc[(category, region)].index: the grid points registered in the
\* region, in index order; none when the lookup raises KeyError
CoastdatIds(tbl, region) ==
    LET ids == {p \in GridIds : <<region, p>> \in DOMAIN tbl}
    IN  [j \in 1 .. Cardinality(ids) |->
            CHOOSE p \in ids : Cardinality({q \in ids : q < p}) = j - 1]

\* pp.loc[(category, region), 'capacity_<year>'].sum()
RegionCapacity(tbl, region) ==
    LET ids == CoastdatIds(tbl, region)
        RECURSIVE Total(_)
        Total(j) == IF j = 0 THEN 0 ELSE tbl[<<region, ids[j]>>] + Total(j - 1)
    IN  Total(Len(ids))

\* my_index: the index of the series of grid point RefId in the last set
MyIndex(stores) ==
    LET fr == stores[set_names[Len(set_names)]][Key(RefId)]
    IN  SLen(fr[CHOOSE col \in DOMAIN fr : TRUE])

\* pwr[name][coastdat_key][col][:8760]
Truncated(s) == FirstN(s, FeedinHours)

\* lines 569-580: the frame of the weighted series of the grid points ids
RECURSIVE TempFrame(_, _, _, _, _, _)
TempFrame(stores, tbl, region, name, col, ids) ==
    IF ids = <<>> THEN IndexFrame(MyIndex(stores))
    ELSE LET n == Len(ids)
             coastdat_id == ids[n]
             pp_inst == Num(tbl[<<region, coastdat_id>>])
         IN  SetCol(TempFrame(stores, tbl, region, name, col, SubSeq(ids, 1, n - 1)),
                    Key(coastdat_id),
                    SMap("mul", Truncated(stores[name][Key(coastdat_id)][col]), pp_inst))

\* lines 581-586: the result column of one column of one set
FeedinColumn(stores, tbl, region, name, col, ns) ==
    SMap("div",
         RowSum(TempFrame(stores, tbl, region, name, col, CoastdatIds(tbl, region)), ns),
         Num(RegionCapacity(tbl, region)))

\* the pairs <<name, col>> in the order of the loops of lines 566-568
RECURSIVE Work(_)
Work(k) ==
    IF k = 0 THEN <<>>
    ELSE Work(k - 1) \o [c \in DOMAIN columns[set_names[k]] |->
                            <<set_names[k], columns[set_names[k]][c]>>]

\* lines 566-586: the columns of one region are set one after the other
RECURSIVE RegionColumns(_, _, _, _, _, _)
RegionColumns(fi, stores, tbl, region, work, ns) ==
    IF work = <<>> THEN fi
    ELSE LET n == Len(work)
             name == work[n][1]
             col == work[n][2]
         IN  SetCol(RegionColumns(fi, stores, tbl, region, SubSeq(work, 1, n - 1), ns),
                    <<region, name, SubsetLabel(col)>>,
                    FeedinColumn(stores, tbl, region, name, col, ns))

\* the category of the aggregation and the files of its sets
CategoryDir == "solar"
CategoryFiles == SolarFiles

\* lines 523-549: the feed-in files are written if their directory is
\* missing, every set file of the directory is opened in append mode, and
\* the empty result frame is made
PrepareFeedin ==
    /\ pc = "prepare"
    /\ \E resp1 \in Answers(url_cfg, ~IsDir(fs, CategoryDir)
                                        /\ url_cfg # NoUrl
                                        /\ ~IsFile(fs, WeatherFile)),
          resp2 \in Answers(url_cfg, ~IsDir(fs, CategoryDir)
                                        /\ url_cfg # NoUrl
                                        /\ ~IsFile(fs, WeatherFile)) :
         LET o == IF ~IsDir(fs, CategoryDir)
                  THEN normalised_feedin_for_each_data_set(
                           fs, <<>>, ret, url_cfg, TRUE, TRUE, FALSE,
                           resp1, resp2)
                  ELSE Outcome(fs, <<>>, ret, {}, "none")
         IN  /\ fs' = o.fs
             /\ requests' = o.requests
             /\ ret' = o.r
             /\ err' = o.err
             /\ IF o.err # "none"
                THEN /\ pc' = "error"
                     /\ opened' = o.opened
                     /\ feed_in' = feed_in
                ELSE /\ pc' = "aggregate"
                     /\ opened' = o.opened
                                    \cup {f \in CategoryFiles : IsFile(o.fs, f)}
                     /\ feed_in' = IndexFrame(MyIndex(pwr))
    /\ call' = Call("aggregate_by_region_coastdat_feedin", FeedinFile, url_cfg,
                    FALSE, FALSE, FALSE)
    /\ UNCHANGED <<year, nosum, i, wvars, regions, pp, pwr, energy, flh_cfg,
                   url_cfg>>

\* a pass that sets the columns of a region without grid point as well
AggregateRegionNoGuard ==
    /\ pc = "aggregate"
    /\ i <= Len(regions)
    /\ feed_in' = RegionColumns(feed_in, pwr, pp, regions[i],
                                Work(Len(set_names)), nosum)
    /\ i' = i + 1
    /\ UNCHANGED <<pc, err, year, nosum, wvars, regions, pp, pwr, energy, flh_cfg, dvars>>

\* one pass of the loop over regions (lines 554-586)
AggregateRegion ==
    /\ pc = "aggregate"
    /\ i <= Len(regions)
    /\ LET region == regions[i]
           number_of_coastdat_ids == Len(CoastdatIds(pp, region))
       IN  feed_in' = IF number_of_coastdat_ids > 0
                      THEN RegionColumns(feed_in, pwr, pp, region,
                                         Work(Len(set_names)), nosum)
                      ELSE feed_in
    /\ i' = i + 1
    /\ UNCHANGED <<pc, err, year, nosum, wvars, regions, pp, pwr, energy, flh_cfg, dvars>>

\* lines 588-590: the frame is written, the stores are closed
WriteFeedin ==
    /\ pc = "aggregate"
    /\ i > Len(regions)
    /\ pc' = "done"
    /\ fs' = WriteFile(fs, FeedinFile, Content("csv", CoastdatUrl))
    /\ opened' = opened \cup {FeedinFile}
    /\ UNCHANGED <<err, year, nosum, i, wvars, fvars, requests, ret, call,
                   url_cfg>>

\* the registrations of the model: the grid points of a region are
\* neighbours, the regions follow the order of the grid points, the
\* points without registration come first
Registrations ==
    {a \in [GridIds -> Regions \cup {NoRegion}] :
        \A p \in GridIds, q \in GridIds : p < q => a[p] <= a[q]}

CapTables ==
    {PpOf(a, c, flat) : a \in Registrations, c \in 0 .. MaxCap, flat \in BOOLEAN}

\* The feed-in files of the year are there, with any of the stores and
\* capacity tables; or their directory is missing, the weather file is
\* there, missing or an error page saved by an earlier download, and the
\* feed-in computed from the archive is the one of the store of full length.
InitFeedin ==
    /\ pc = "prepare"
    /\ err = "none"
    /\ year \in Years
    /\ nosum \in {NaN, Num(0)}
    /\ i = 1
    /\ geo_index = <<>>
    /\ grid = <<>>
    /\ within = <<>>
    /\ rep_hits = <<>>
    /\ coastdat_gdf = <<>>
    /\ fix = <<>>
    /\ weather = <<>>
    /\ fix_read = {}
    /\ avg_value = EmptyFrame
    /\ regions = [j \in 1 .. MaxRegions |-> j]
    /\ \/ /\ fs = Disk({WeatherFile, KeyFile} \cup SolarFiles \cup WindFiles)
          /\ url_cfg = CoastdatUrl
          /\ pp \in CapTables
          /\ \E st \in Stores(year) : pwr = PwrOf(st)
       \/ /\ fs \in {Disk({}), Disk({WeatherFile}), DiskWithPage}
          /\ url_cfg \in {NoUrl, CoastdatUrl}
          /\ pp \in {PpOf(a, 1, FALSE) : a \in Registrations}
          /\ pwr = PwrOf(StoreOf(year, 0, RefId, HMax(year)))
    /\ feed_in = EmptyFrame
    /\ energy = 0
    /\ flh_cfg = 0
    /\ NoCallYet

NextFeedin == PrepareFeedin \/ AggregateRegion \/ WriteFeedin

SpecFeedin == InitFeedin /\ [][NextFeedin]_vars

----------------------------------------------------------------------------
(* Claims about aggregate_by_region_coastdat_feedin *)

\* the grid points registered in region r
Assigned(r) == {p \in GridIds : <<r, p>> \in DOMAIN pp}

\* region r has been aggregated
Processed(r) == \E j \in DOMAIN regions : regions[j] = r /\ j < i

\* the source columns of set name that give a result column: of the columns
\* with the same subset label the last one
Sources(name) ==
    {columns[name][c] : c \in {c \in DOMAIN columns[name] :
        \A e \in DOMAIN columns[name] :
            SubsetLabel(columns[name][e]) = SubsetLabel(columns[name][c]) => e <= c}}

SetNames == {set_names[k] : k \in DOMAIN set_names}

\* the hours of the year for which the result has a row and every point of
\* P a value in column col of set name
CommonHours(P, name, col) ==
    Least({HMax(year), feed_in.len} \cup {SLen(pwr[name][Key(p)][col]) : p \in P})

\* the hour-by-hour sum of capacity times series over the points P, for the
\* first m hours
RECURSIVE WeightedSum(_, _, _, _, _)
WeightedSum(r, P, name, col, m) ==
    IF P = {} THEN Const(m, Num(0))
    ELSE LET p == CHOOSE q \in P : TRUE
         IN  SZip("add",
                  SMap("mul", FirstN(pwr[name][Key(p)][col], m), Num(pp[<<r, p>>])),
                  WeightedSum(r, P \ {p}, name, col, m))

\* C2: for a region with grid points and positive total capacity every
\* result column is, at every hour of the year, the sum of capacity times
\* series value over the grid points of the region divided by the sum of
\* their capacities.
C2_WeightedAverage ==
    pc = "done" =>
        \A r \in Regions, name \in SetNames :
            \A col \in Sources(name) :
                LET P == Assigned(r)
                    m == CommonHours(P, name, col)
                IN  (P # {} /\ RegionCapacity(pp, r) > 0) =>
                        FirstN(feed_in.col[<<r, name, SubsetLabel(col)>>], m)
                          = SMap("div", WeightedSum(r, P, name, col, m),
                                 Num(RegionCapacity(pp, r)))

\* C4: a region of zero total capacity raises a divide-by-zero error; no
\* NaN or infinite value is written to its columns.
C4_ZeroCapacityRaises ==
    \A r \in Regions :
        (Processed(r) /\ Assigned(r) # {} /\ RegionCapacity(pp, r) = 0) =>
            /\ err = "ZeroDivisionError"
            /\ \A k \in DOMAIN feed_in.col :
                   k[1] = r => \A j \in DOMAIN feed_in.col[k] :
                                   IsFinite(feed_in.col[k][j].v)

\* number of hours of s with a finite value other than zero
RECURSIVE DataRows(_)
DataRows(s) ==
    IF s = <<>> THEN 0
    ELSE (IF IsFinite(Head(s).v) /\ Head(s).v.n > 0 THEN Head(s).c ELSE 0)
         + DataRows(Tail(s))

\* every grid point of region r has capacity and a series of the full year
FullInput(r) ==
    /\ Assigned(r) # {}
    /\ feed_in.len >= HMax(year)
    /\ \A p \in Assigned(r) :
           /\ pp[<<r, p>>] > 0
           /\ \A name \in SetNames : \A col \in Sources(name) :
                  SLen(pwr[name][Key(p)][col]) >= HMax(year)

\* C5: the result carries aggregated data in exactly 8784 hourly rows in a
\* leap year and in exactly 8760 otherwise (all stored feed-in values are
\* positive).
C5_RowsOfTheYear ==
    pc = "done" =>
        \A k \in DOMAIN feed_in.col :
            FullInput(k[1]) => DataRows(feed_in.col[k]) = HMax(year)

\* C6: a per-point series shorter than the expected length of the year
\* raises a data-integrity error.
C6_ShortSeriesRaises ==
    \A r \in Regions :
        (/\ Processed(r)
         /\ \E p \in Assigned(r), name \in SetNames : \E col \in Sources(name) :
                SLen(pwr[name][Key(p)][col]) < HMax(year))
        => err = "DataIntegrityError"

\* C8: truncation keeps the first h_max values of a series: the column of a
\* region with one grid point of positive capacity is, for the h_max hours
\* of the year, the series of that point, whether the series has h_max
\* values or more.
C8_PrefixPreserving ==
    pc = "done" =>
        \A r \in Regions, p \in GridIds, name \in SetNames :
            \A col \in Sources(name) :
                (Assigned(r) = {p} /\ FullInput(r)) =>
                    FirstN(feed_in.col[<<r, name, SubsetLabel(col)>>], HMax(year))
                      = FirstN(pwr[name][Key(p)][col], HMax(year))

\* the series of column col of set name as a store of the arithmetic-mean
\* mode
AsWeather(name, col) ==
    [key \in {Key(p) : p \in GridIds} |-> pwr[name][key][col]]

\* C9: when all grid points of a region have the same positive capacity the
\* weighted aggregation is, at every hour of the year, the arithmetic mean of
\* the series as the arithmetic-mean mode computes it.
C9_EqualWeights ==
    pc = "done" =>
        \A r \in Regions, name \in SetNames :
            \A col \in Sources(name) :
                LET P == Assigned(r)
                    m == CommonHours(P, name, col)
                IN  (/\ P # {}
                     /\ \A p, q \in P : pp[<<r, p>>] = pp[<<r, q>>]
                     /\ \A p \in P : pp[<<r, p>>] > 0) =>
                        FirstN(feed_in.col[<<r, name, SubsetLabel(col)>>], m)
                          = FirstN(SMap("div",
                                        RowSum(TmpFrame(AsWeather(name, col),
                                                        CoastdatIds(pp, r)), nosum),
                                        Num(Cardinality(P))), m)

----------------------------------------------------------------------------
(* aggregate_by_region_hydro, aggregate_by_region_geothermal *)

MaxEnergy == 3      \* largest annual hydro energy
MaxFlh == 3         \* largest configured number of full load hours
MaxPlants == 2      \* hydro power plants in the capacity table

\* changed: the hours of a year without leap day, for every year
DateRangeNoLeapDay(y) == 24 * 365

\* len(pd.date_range('<y>-01-01 00:00', '<y>-12-31 23:00', freq='H',
\* tz='Europe/Berlin')): 24 hours for every day of the year; the hour lost
\* in March comes back in October
DateRange(y) == 24 * (IF IsLeap(y) THEN 366 ELSE 365)

\* pp.loc['Hydro', 'capacity'].sum()
RECURSIVE HydroCapacity(_, _)
HydroCapacity(tbl, n) ==
    IF n = 0 THEN 0 ELSE tbl[<<"Hydro", n>>] + HydroCapacity(tbl, n - 1)

\* lines 607-611 and 628-632: a frame with one column per region, every
\* hour holding full_load_hours / len(feed_in)
Uniform(rs, y, full_load_hours) ==
    [len |-> DateRange(y),
     col |-> [r \in {rs[j] : j \in DOMAIN rs} |->
                 Const(DateRange(y), FDiv(full_load_hours, Num(DateRange(y))))]]

\* aggregate_by_region_hydro (lines 593-612)
AggregateHydro ==
    /\ pc = "scalar"
    /\ LET hydro_capacity == Num(HydroCapacity(pp, MaxPlants))
           full_load_hours == FMul(FDiv(Num(energy), hydro_capacity), Num(1000))
       IN  feed_in' = Uniform(regions, year, full_load_hours)
    /\ pc' = "hydro"
    /\ fs' = WriteFile(fs, HydroFile, Content("csv", "bmwi"))
    /\ opened' = {HydroFile}
    /\ requests' = <<>>
    /\ call' = Call("aggregate_by_region_hydro", HydroFile, NoUrl, FALSE, FALSE, FALSE)
    /\ UNCHANGED <<err, year, nosum, i, wvars, regions, pp, pwr, energy, flh_cfg,
                   ret, url_cfg>>

\* aggregate_by_region_geothermal (lines 619-633)
AggregateGeothermal ==
    /\ pc = "scalar"
    /\ LET full_load_hours == Num(flh_cfg)
       IN  feed_in' = Uniform(regions, year, full_load_hours)
    /\ pc' = "geothermal"
    /\ fs' = WriteFile(fs, GeothermalFile, Content("csv", "config"))
    /\ opened' = {GeothermalFile}
    /\ requests' = <<>>
    /\ call' = Call("aggregate_by_region_geothermal", GeothermalFile, NoUrl, FALSE, FALSE, FALSE)
    /\ UNCHANGED <<err, year, nosum, i, wvars, regions, pp, pwr, energy, flh_cfg,
                   ret, url_cfg>>

InitScalar ==
    /\ pc = "scalar"
    /\ err = "none"
    /\ year \in Years
    /\ nosum = NaN
    /\ i = 1
    /\ geo_index = <<>>
    /\ grid = <<>>
    /\ within = <<>>
    /\ rep_hits = <<>>
    /\ coastdat_gdf = <<>>
    /\ fix = <<>>
    /\ weather = <<>>
    /\ fix_read = {}
    /\ avg_value = EmptyFrame
    /\ \E n \in 0 .. MaxRegions : regions = [j \in 1 .. n |-> j]
    /\ pp \in [{<<"Hydro", n>> : n \in 1 .. MaxPlants} -> 0 .. MaxCap]
    /\ pwr = <<>>
    /\ feed_in = EmptyFrame
    /\ energy \in 1 .. MaxEnergy
    /\ flh_cfg \in 0 .. MaxFlh
    /\ fs = Disk({})
    /\ url_cfg = NoUrl
    /\ NoCallYet

NextScalar == AggregateHydro \/ AggregateGeothermal

SpecScalar == InitScalar /\ [][NextScalar]_vars

----------------------------------------------------------------------------
(* Claims about the scalar estimators *)

\* the sum of the values of a series of finite values
RECURSIVE SSum(_)
SSum(s) ==
    IF s = <<>> THEN Num(0)
    ELSE FAdd(FMul(Num(Head(s).c), Head(s).v), SSum(Tail(s)))

HoursInYear == IF IsLeap(year) THEN 8784 ELSE 8760

\* the frame has a column for every region of the list and no other, and
\* every column holds flh / hours_in_year in every hour of the year, which
\* sums to flh
UniformColumns(flh) ==
    /\ DOMAIN feed_in.col = {regions[j] : j \in DOMAIN regions}
    /\ \A r \in DOMAIN feed_in.col :
           /\ SLen(feed_in.col[r]) = HoursInYear
           /\ \A j \in DOMAIN feed_in.col[r] :
                  feed_in.col[r][j].v = Frac(flh.n, flh.d * HoursInYear)
           /\ SSum(feed_in.col[r]) = flh

\* C10: hydro and geothermal give every region and every hour of the year
\* the value full_load_hours / hours_in_year, with 8784 hours in a leap year
\* and 8760 otherwise; full_load_hours is annual energy / total hydro
\* capacity * 1000 for hydro and the configured constant for geothermal; a
\* column sums to full_load_hours.
C10_UniformFullLoadHours ==
    /\ (pc = "hydro" /\ HydroCapacity(pp, MaxPlants) > 0) =>
           UniformColumns(Frac(energy * 1000, HydroCapacity(pp, MaxPlants)))
    /\ pc = "geothermal" => UniformColumns(Num(flh_cfg))

\* a leap year with two regions, for hydro with a full load hour count that
\* is no whole number, or for geothermal with a positive one
C10_Witness ==
    /\ IsLeap(year)
    /\ Len(regions) = 2
    /\ \/ /\ pc = "hydro"
          /\ HydroCapacity(pp, MaxPlants) = 3
          /\ energy = 2
          /\ feed_in.col[2] = Const(8784, Frac(2000, 3 * 8784))
       \/ /\ pc = "geothermal"
          /\ flh_cfg > 0
          /\ SLen(feed_in.col[1]) = 8784

----------------------------------------------------------------------------
(* The operations on files, called one after the other *)

\* spatial_average_weather(year, geo, parameter, outfile=outfile) for a
\* geometry whose regions without match have the polygons hits
spatial_average_weather(files, reqs, r, url, outfile, hits, resp1, resp2) ==
    IF \E reg \in DOMAIN hits : Intersecting(grid, hits[reg]) = <<>>
    THEN Outcome(files, reqs, r, {}, "IndexError")
    ELSE LET g == FetchWeather(files, reqs, r, url, resp1, resp2)
             e == OpenError(g.fs, WeatherFile)
         IN  IF e # "none" THEN Outcome(g.fs, g.requests, g.r, g.opened, e)
             ELSE Outcome(WriteFile(g.fs, outfile,
                                    Content("csv", g.fs[WeatherFile].src)),
                          g.requests, g.r, g.opened \cup {outfile}, "none")

\* federal_state_average_weather(year, parameter)
federal_state_average_weather(files, reqs, r, url, hits, resp1, resp2) ==
    IF ~IsFile(files, StateFile)
    THEN spatial_average_weather(files, reqs, r, url, StateFile, hits,
                                 resp1, resp2)
    ELSE Outcome(files, reqs, r, {}, "none")

\* the state after an operation with outcome o
Finish(o) ==
    /\ fs' = o.fs
    /\ requests' = o.requests
    /\ ret' = o.r
    /\ opened' = o.opened
    /\ err' = o.err

\* a call of tools.download_file
DownloadFile ==
    /\ pc = "files"
    /\ \E target \in Downloads, overwrite \in BOOLEAN :
         LET filename == target[1]
             url == target[2]
             needed == NeedsDownload(IsFile(fs, filename), overwrite)
         IN  \E resp \in Answers(url, needed) :
                LET d == download_file(fs, <<>>, filename, url, overwrite, resp)
                IN  /\ Finish(Outcome(d.fs, d.requests, d.r, d.opened, "none"))
                    /\ call' = Call("download_file", filename, url, overwrite,
                                    FALSE, FALSE)
    /\ UNCHANGED <<pc, year, nosum, i, wvars, fvars, url_cfg>>

\* a call of get_coastdat_data for the weather file of the year
GetCoastdatData ==
    /\ pc = "files"
    /\ \E resp1 \in Answers(url_cfg, url_cfg # NoUrl
                                          /\ ~IsFile(fs, WeatherFile)),
          resp2 \in Answers(url_cfg, url_cfg # NoUrl) :
         LET g == get_coastdat_data(fs, <<>>, ret, url_cfg, WeatherFile,
                                    resp1, resp2)
         IN  Finish(Outcome(g.fs, g.requests, g.r, g.opened, "none"))
    /\ call' = Call("get_coastdat_data", WeatherFile, url_cfg, FALSE,
                    FALSE, FALSE)
    /\ UNCHANGED <<pc, year, nosum, i, wvars, fvars, url_cfg>>

\* a call of inhabitants.get_ew_shp_file
GetEwShpFile ==
    /\ pc = "files"
    /\ \E y \in EwYears :
         LET first == y >= 2011 /\ ~IsFile(fs, ShpFile) /\ ~IsFile(fs, ZipFile)
         IN  \E resp1 \in Answers(EbeneUrl, first) :
                \E resp2 \in Answers(EbenenUrl, first /\ resp1.status = 404) :
                   Finish(get_ew_shp_file(fs, <<>>, ret, y, resp1, resp2))
    /\ call' = Call("get_ew_shp_file", ZipFile, EbeneUrl, FALSE, FALSE, FALSE)
    /\ UNCHANGED <<pc, year, nosum, i, wvars, fvars, url_cfg>>

NormalisedFeedin ==
    /\ pc = "files"
    /\ \E wind \in BOOLEAN, solar \in BOOLEAN, overwrite \in BOOLEAN :
         \E resp1 \in Fetched(fs, url_cfg), resp2 \in Fetched(fs, url_cfg) :
            /\ Finish(normalised_feedin_for_each_data_set(
                         fs, <<>>, ret, url_cfg, wind, solar, overwrite,
                         resp1, resp2))
            /\ call' = Call("normalised_feedin_for_each_data_set", WeatherFile,
                            url_cfg, overwrite, wind, solar)
    /\ UNCHANGED <<pc, year, nosum, i, wvars, fvars, url_cfg>>

GetAverageWindSpeed ==
    /\ pc = "files"
    /\ \E overwrite \in BOOLEAN :
         /\ Finish(get_average_wind_speed(fs, <<>>, ret, overwrite))
         /\ call' = Call("get_average_wind_speed", AvgWindFile, NoUrl,
                         overwrite, FALSE, FALSE)
    /\ UNCHANGED <<pc, year, nosum, i, wvars, fvars, url_cfg>>

FederalStateAverageWeather ==
    /\ pc = "files"
    /\ \E hits \in IF IsFile(fs, StateFile) THEN {<<>>}
                    ELSE [Unmatched(spatial_join_with_buffer(within), geo_index)
                            -> Meets(grid)] :
         \E resp1 \in Fetched(fs, url_cfg), resp2 \in Fetched(fs, url_cfg) :
            Finish(federal_state_average_weather(
                      fs, <<>>, ret, url_cfg, hits, resp1, resp2))
    /\ call' = Call("federal_state_average_weather", StateFile, url_cfg,
                    FALSE, FALSE, FALSE)
    /\ UNCHANGED <<pc, year, nosum, i, wvars, fvars, url_cfg>>

InitFiles ==
    /\ pc = "files"
    /\ err = "none"
    /\ year = 2016
    /\ nosum = NaN
    /\ i = 1
    /\ geo_index = [j \in 1 .. MaxRegions |-> j]
    /\ grid = Ascending
    /\ within \in {Spread, Lumped}
    /\ rep_hits = <<>>
    /\ coastdat_gdf = <<>>
    /\ fix = <<>>
    /\ weather = <<>>
    /\ fix_read = {}
    /\ avg_value = EmptyFrame
    /\ regions = <<>>
    /\ pp = <<>>
    /\ pwr = <<>>
    /\ feed_in = EmptyFrame
    /\ energy = 0
    /\ flh_cfg = 0
    /\ fs = Disk({})
    /\ NoCallYet
    /\ url_cfg \in {NoUrl, CoastdatUrl}

NextFiles ==
    \/ DownloadFile
    \/ GetCoastdatData
    \/ GetEwShpFile
    \/ NormalisedFeedin
    \/ GetAverageWindSpeed
    \/ FederalStateAverageWeather

SpecFiles == InitFiles /\ [][NextFiles]_vars

----------------------------------------------------------------------------
(* Claims about files and downloads *)

\* C11: when the server answers the requests of a call of get_coastdat_data
\* with a status other than 200, no file is created or modified and the
\* request is made once only.
C11_NoFileOnFailure ==
    [][(/\ call'.op = "get_coastdat_data"
        /\ requests' # <<>>
        /\ \A k \in DOMAIN requests' : requests'[k].status # 200)
          => (fs' = fs /\ Len(requests') = 1)]_vars

\* the operations that skip an existing result
PipelineOps ==
    {"normalised_feedin_for_each_data_set", "get_average_wind_speed",
     "federal_state_average_weather"}

\* C12: an operation that is run again with overwrite=False right after a
\* complete run with the same arguments changes no file and opens none for
\* writing; normalised_feedin_for_each_data_set with overwrite=False opens
\* no existing set file for writing, get_average_wind_speed with
\* overwrite=False and federal_state_average_weather write nothing when
\* their result file exists.
C12_SecondRunSkips ==
    [][/\ (call' = call /\ call.op \in PipelineOps /\ ~call.overwrite
              /\ err = "none")
          => (fs' = fs /\ opened' = {} /\ requests' = <<>>
                 /\ err' = "none")
       /\ (call'.op = "normalised_feedin_for_each_data_set"
              /\ ~call'.overwrite)
          => \A f \in SolarFiles \cup WindFiles :
                IsFile(fs, f) => (f \notin opened' /\ fs'[f] = fs[f])
       /\ (call'.op = "get_average_wind_speed" /\ ~call'.overwrite
              /\ IsFile(fs, AvgWindFile))
          => (fs' = fs /\ opened' = {})
       /\ (call'.op = "federal_state_average_weather"
              /\ IsFile(fs, StateFile))
          => (fs' = fs /\ opened' = {})]_vars

\* a run of normalised_feedin_for_each_data_set for wind and solar with
\* overwrite=False that found every set file and wrote nothing
C12_Witness ==
    /\ call.op = "normalised_feedin_for_each_data_set"
    /\ call.wind /\ call.solar /\ ~call.overwrite
    /\ err = "none"
    /\ opened = {}
    /\ \A f \in SolarFiles \cup WindFiles : fs[f].kind = "feedin"
    /\ fs[AvgWindFile].kind = "csv"
    /\ fs[StateFile].kind = "csv"

\* C14: download_file makes no request, leaves every file unchanged and
\* returns 1 when the file exists and overwrite is False; otherwise it makes
\* exactly one request, to the url given, writes the body of the response to
\* the file, changes no other file and returns the status code of the
\* response.
C14_DownloadFileContract ==
    [][call'.op = "download_file" =>
         IF IsFile(fs, call'.file) /\ ~call'.overwrite
         THEN requests' = <<>> /\ fs' = fs /\ ret' = 1
         ELSE /\ Len(requests') = 1
              /\ requests'[1].url = call'.url
              /\ ret' = requests'[1].status
              /\ fs'[call'.file] = requests'[1].body
              /\ \A f \in Files \ {call'.file} : fs'[f] = fs[f]]_vars

\* download_file has replaced the weather file, from which the keys had
\* been read, by the error page of a request answered with 404 and
\* returned 404
C14_Witness ==
    /\ call.op = "download_file"
    /\ call.file = WeatherFile
    /\ call.overwrite
    /\ ret = 404
    /\ Len(requests) = 1
    /\ requests[1].url = call.url /\ requests[1].status = 404
    /\ IsFile(fs, KeyFile)
    /\ fs[call.file] = Content("page", call.url)

----------------------------------------------------------------------------
(* Claims about errors of single regions *)

\* the regions without grid point whose representative point meets no
\* polygon of the grid
Failed ==
    {r \in Regions : /\ pc # "join"
                     /\ Natural(r) = {}
                     /\ Intersecting(grid, rep_hits[r]) = <<>>}

\* C13: a region without match and without intersecting fallback polygon
\* does not abort spatial_average_weather: the call goes on with the other
\* regions and ends with their columns in the result.
C13_BatchContinues ==
    Failed # {} =>
        /\ pc \in {"average", "done"}
        /\ pc = "done" =>
              \A r \in Regions : Natural(r) # {} => r \in DOMAIN avg_value.col

----------------------------------------------------------------------------
(* Claims about the columns of aggregate_by_region_coastdat_feedin *)

\* the last three tokens of a column name, all of them if it has no more
LastThree(col) ==
    LET n == IF Len(col) < 3 THEN Len(col) ELSE 3
    IN  [k \in 1 .. n |-> col[Len(col) - n + k]]

\* the keys of the result columns of region r
KeysOf(r) == {k \in DOMAIN feed_in.col : k[1] = r}

\* the keys of the claim for region r: one for each set and each distinct
\* label of a source column
LabelKeys(r) ==
    UNION {{<<r, name, LastThree(columns[name][c])>> : c \in DOMAIN columns[name]} :
              name \in SetNames}

\* C15: every result column has a key <<region, set name, subset label>>,
\* the label being the last three tokens of a source column name of the
\* set; a region with a grid point has exactly one column for each set and
\* each distinct label, and a source column name of three or less tokens
\* is its own label.
C15_ThreeLevelKeys ==
    /\ \A k \in DOMAIN feed_in.col :
          /\ Len(k) = 3
          /\ \E j \in DOMAIN regions : regions[j] = k[1]
          /\ k[2] \in SetNames
          /\ \E c \in DOMAIN columns[k[2]] : k[3] = LastThree(columns[k[2]][c])
    /\ \A r \in Regions :
          (Processed(r) /\ Assigned(r) # {}) =>
              /\ KeysOf(r) = LabelKeys(r)
              /\ \A name \in SetNames : \A c \in DOMAIN columns[name] :
                    Len(columns[name][c]) <= 3 =>
                        <<r, name, columns[name][c]>> \in KeysOf(r)

\* a region with a grid point has four columns from six source columns: the
\* two names with the same last three tokens share a column, the name of
\* three tokens kept its own
C15_Witness ==
    /\ pc = "done"
    /\ \E r \in Regions :
          /\ Assigned(r) # {}
          /\ Cardinality(KeysOf(r)) = 4
          /\ <<r, "set1", <<"a", "b", "c">>>> \in KeysOf(r)
          /\ <<r, "set2", <<"x", "y", "z">>>> \in KeysOf(r)

\* the result of a call for region r alone
Alone(r) ==
    RegionColumns(IndexFrame(MyIndex(pwr)), pwr, pp, r, Work(Len(set_names)),
                  nosum)

\* C16: a requested region without capacity entry gets no column and raises
\* no error, the columns of the other regions are those of a call without
\* it, and at the end the regions of the result are the requested regions
\* with at least one registered grid point.
C16_RegionsWithoutEntry ==
    /\ \A r \in Regions :
          (Processed(r) /\ Assigned(r) = {})
             => (KeysOf(r) = {} /\ err = "none" /\ pc # "error")
    /\ pc = "done" =>
          /\ \A r \in Regions :
                Assigned(r) # {} =>
                    [k \in KeysOf(r) |-> feed_in.col[k]] = Alone(r).col
          /\ {k[1] : k \in DOMAIN feed_in.col}
                = {regions[j] : j \in {j \in DOMAIN regions :
                                          Assigned(regions[j]) # {}}}

\* the first requested region has no capacity entry, the second one has its
\* columns
C16_Witness ==
    /\ pc = "done"
    /\ Len(regions) >= 2
    /\ Assigned(regions[1]) = {}
    /\ Assigned(regions[2]) # {}
    /\ KeysOf(regions[1]) = {}
    /\ KeysOf(regions[2]) # {}

==============================================================================
